---- MODULE Spec2Model ----
(***************************************************************************)
(* A model of the voxel engine's core: the block registry                  *)
(* (render/block.rs), the chunk with its visibility bits and mesh cache    *)
(* (world/mod.rs), the per-face mesher (world/mesher.rs) and the world's   *)
(* parallel mesh assembly (World::make_mesh).                              *)
(*                                                                         *)
(* usize values: TLC's integers are narrower than 64 bits, so a usize that *)
(* wrapped below zero is kept as its negative representative modulo 2^64   *)
(* (-1 stands for usize::MAX).  Such a value is non-zero, compares above   *)
(* every in-range value, and an index it yields that is still negative     *)
(* stands for a value of at least 2^64 - 4096, far above every array       *)
(* length.  Positions are f32 in the source; every position the model      *)
(* builds is a small integer, which f32 represents exactly.                *)
(***************************************************************************)
EXTENDS Integers, Sequences, FiniteSets, TLC

VARIABLES
    overflow_checks,  \* build profile: TRUE = arithmetic overflow panics (debug), FALSE = wraps (release)
    palette,          \* the BlockRegistry handed to the chunk and world operations
    registered,       \* history: the descriptors passed to add_block so far, in call order
    script,           \* history: the set_block calls of a scripted run, in call order
    atlas,            \* TextureAtlas.lookup_table, as the set of texture names packed
    chunk,            \* a Chunk its caller owns: blocks, visible, needs_remesh, vert_cache
    last,             \* the last completed or aborted call on the chunk, with what it returned
    calls,            \* number of calls the chunk's holder may still make
    halted,           \* TRUE once a call has panicked: the process is gone
    chunks,           \* World.chunks: chunk position -> Chunk
    pc,               \* make_mesh: where the closure run for each chunk stands
    local,            \* make_mesh: each closure's verts_wait and _indices
    vertices_mutex,   \* make_mesh: the vertex accumulator, its lock holder, who appended what
    indices_mutex,    \* make_mesh: the index accumulator, its lock holder, who appended what
    chunks_completed, \* make_mesh: the AtomicUsize
    mm                \* make_mesh: status and the pair returned

chunk_vars == <<chunk, last, calls, halted>>

world_vars == <<chunks, pc, local, vertices_mutex, indices_mutex, chunks_completed, mm>>

vars == <<overflow_checks, palette, registered, script, atlas, chunk_vars, world_vars>>

(***************************************************************************)
(* Constants of the program.                                               *)
(***************************************************************************)
CHUNK_WIDTH == 16

CHUNK_SIZE == CHUNK_WIDTH * CHUNK_WIDTH * CHUNK_WIDTH

(***************************************************************************)
(* Bounds of the model.                                                    *)
(***************************************************************************)
\* Calls made on a chunk in a run, with the whole set of calls and with set_block and
\* get_mesh only; chunks in the world make_mesh runs on.
MaxCalls == 2

MaxCacheCalls == 4

MaxChunks == 2

(***************************************************************************)
(* render/block.rs                                                         *)
(***************************************************************************)
\* Option<String>: None is the empty sequence, Some(s) is <<s>>.
None == <<>>

Some(s) == <<s>>

BlockDescriptor_new(id, invisible, transparent, top_texture, bottom_texture, side_textures) ==
    [id |-> id, invisible |-> invisible, transparent |-> transparent,
     top_texture |-> top_texture, bottom_texture |-> bottom_texture,
     side_textures |-> side_textures]

AIR == [desc_index |-> 0, invisible |-> TRUE, transparent |-> TRUE]

\* #[derive(Default)]: both tables empty.
BlockRegistry_default == [keys |-> <<>>, blocks |-> <<>>]

MaxOf(S) == CHOOSE m \in S : \A n \in S : n <= m

Values(f) == {f[k] : k \in DOMAIN f}

Insert(f, k, v) == [j \in (DOMAIN f) \cup {k} |-> IF j = k THEN v ELSE f[j]]

\* The id taken from the number of names.
NextIdBad(keys) == Cardinality(DOMAIN keys)

\* `let next = if max.is_none() { 0 } else { max.unwrap() + 1 }`, max over keys.values().
NextId(keys) == IF Values(keys) = {} THEN 0 ELSE MaxOf(Values(keys)) + 1

add_block(reg, desc) ==
    LET next == NextId(reg.keys)
    IN  [keys |-> Insert(reg.keys, desc.id, next),
         blocks |-> Insert(reg.blocks, next, desc)]

\* get_str, get_uint and block panic on a miss: the Has* predicates are their guards.
HasStr(reg, id) == id \in DOMAIN reg.keys /\ reg.keys[id] \in DOMAIN reg.blocks

\* The descriptor of the lowest id, whatever the name.
get_strBad(reg, id) == reg.blocks[0]

get_str(reg, id) == reg.blocks[reg.keys[id]]

HasUint(reg, id) == id \in DOMAIN reg.blocks

get_uint(reg, id) == reg.blocks[id]

block(reg, id) ==
    LET desc == get_str(reg, id)
    IN  [desc_index |-> reg.keys[id], invisible |-> desc.invisible,
         transparent |-> desc.transparent]

(***************************************************************************)
(* render/state.rs: the descriptors State::init registers, in its order.   *)
(***************************************************************************)
AirDesc == BlockDescriptor_new("air", TRUE, TRUE, None, None, <<None, None, None, None>>)

GrassDesc ==
    BlockDescriptor_new("grass", FALSE, FALSE, Some("grass_top"), Some("grass_bottom"),
        <<Some("grass_side"), Some("grass_side"), Some("grass_side"), Some("grass_side")>>)

DirtDesc ==
    BlockDescriptor_new("dirt", FALSE, FALSE, Some("grass_bottom"), Some("grass_bottom"),
        <<Some("grass_bottom"), Some("grass_bottom"), Some("grass_bottom"), Some("grass_bottom")>>)

\* A see-through block that is drawn: the one flag combination State::init does not register.
GlassDesc ==
    BlockDescriptor_new("glass", FALSE, TRUE, Some("glass"), Some("glass"),
        <<Some("glass"), Some("glass"), Some("glass"), Some("glass")>>)

StateInitRegistry ==
    add_block(add_block(add_block(BlockRegistry_default, AirDesc), GrassDesc), DirtDesc)

ChunkPalette == add_block(StateInitRegistry, GlassDesc)

\* The add_block calls that built ChunkPalette.
ChunkDescs == <<AirDesc, GrassDesc, DirtDesc, GlassDesc>>

(***************************************************************************)
(* render/texture.rs: TextureAtlas::coords_of.  The four corners of a      *)
(* packed texture are kept symbolically as <<name, corner>>.               *)
(***************************************************************************)
coords_of_ok(lookup_table, id) == id \in lookup_table

coords_of(lookup_table, id) ==
    [tl |-> <<id, "tl">>, tr |-> <<id, "tr">>, bl |-> <<id, "bl">>, br |-> <<id, "br">>]

FullAtlas == {"grass_top", "grass_bottom", "grass_side", "glass"}

(***************************************************************************)
(* world/mod.rs: Chunk                                                     *)
(***************************************************************************)
EmptyMesh == [vertices |-> <<>>, indices |-> <<>>]

Chunk_new ==
    [blocks |-> [i \in 0..(CHUNK_SIZE - 1) |-> AIR],
     visible |-> [i \in 0..(CHUNK_SIZE - 1) |-> TRUE],
     needs_remesh |-> FALSE,
     vert_cache |-> EmptyMesh]

\* The index with the x stride taken for the y stride.
LinBad(x, y, z) == x * CHUNK_WIDTH + y * CHUNK_WIDTH + z

\* x*CHUNK_WIDTH*CHUNK_WIDTH+y*CHUNK_WIDTH+z, the index every accessor computes.
Lin(x, y, z) == x * CHUNK_WIDTH * CHUNK_WIDTH + y * CHUNK_WIDTH + z

\* Rust's bounds check on blocks[i] / visible[i]; a negative i stands for a wrapped, huge index.
IndexOk(i) == 0 <= i /\ i < CHUNK_SIZE

\* get_ref: the `>` test only prints; the indexing is what can panic.
get_ref_ok(c, x, y, z) == IndexOk(Lin(x, y, z))

get_ref(c, x, y, z) == c.blocks[Lin(x, y, z)]

is_visible_ok(x, y, z) == IndexOk(Lin(x, y, z))

is_visible(vis, x, y, z) == vis[Lin(x, y, z)]

\* A step of update_visible: acc is [panicked, is_visible, visible].
\* `if guard { is_visible = is_visible && self.is_visible(nx,ny,nz) }`, && short-circuiting.
ReadNeighbour(acc, guard, nx, ny, nz) ==
    IF acc.panicked \/ ~guard \/ ~acc.is_visible THEN acc
    ELSE IF ~is_visible_ok(nx, ny, nz) THEN [acc EXCEPT !.panicked = TRUE]
    ELSE [acc EXCEPT !.is_visible = is_visible(acc.visible, nx, ny, nz)]

\* The bit written false whatever v is.
WriteVisibleBad(acc, guard, nx, ny, nz, v) ==
    IF acc.panicked \/ ~guard THEN acc
    ELSE IF ~IndexOk(Lin(nx, ny, nz)) THEN [acc EXCEPT !.panicked = TRUE]
    ELSE [acc EXCEPT !.visible = [@ EXCEPT ![Lin(nx, ny, nz)] = FALSE]]

\* `if guard { self.set_visible(nx,ny,nz, v) }`
WriteVisible(acc, guard, nx, ny, nz, v) ==
    IF acc.panicked \/ ~guard THEN acc
    ELSE IF ~IndexOk(Lin(nx, ny, nz)) THEN [acc EXCEPT !.panicked = TRUE]
    ELSE [acc EXCEPT !.visible = [@ EXCEPT ![Lin(nx, ny, nz)] = v]]

\* The own bit taken from the number of calls left to the caller, not from the chunk.
OwnVisibleByBudget(vis, x, y, z) ==
    [panicked |-> FALSE, is_visible |-> calls % 2 = 0, visible |-> vis]

\* The own bit with the z+1 neighbour left out.
OwnVisibleBad(vis, x, y, z) ==
    LET a0 == [panicked |-> FALSE, is_visible |-> TRUE, visible |-> vis]
        a1 == ReadNeighbour(a0, x > 0, x - 1, y, z)
        a2 == ReadNeighbour(a1, x < 15, x + 1, y, z)
        a3 == ReadNeighbour(a2, y > 0, x, y - 1, z)
        a4 == ReadNeighbour(a3, y < 15, x, y + 1, z)
        a5 == ReadNeighbour(a4, z > 0, x, y, z - 1)
    IN  a5

\* The first half of update_visible: the cell's own bit from its in-bounds neighbours.
OwnVisible(vis, x, y, z) ==
    LET a0 == [panicked |-> FALSE, is_visible |-> TRUE, visible |-> vis]
        a1 == ReadNeighbour(a0, x > 0, x - 1, y, z)
        a2 == ReadNeighbour(a1, x < 15, x + 1, y, z)
        a3 == ReadNeighbour(a2, y > 0, x, y - 1, z)
        a4 == ReadNeighbour(a3, y < 15, x, y + 1, z)
        a5 == ReadNeighbour(a4, z > 0, x, y, z - 1)
        a6 == ReadNeighbour(a5, z < 15, x, y, z + 1)
    IN  a6

\* The propagation run for every transparent block, the recomputed bit ignored.
PropagateBad(acc, transparent, x, y, z) ==
    IF acc.panicked \/ ~transparent THEN acc
    ELSE LET b1 == WriteVisible(acc, x > 0, x - 1, y, z, TRUE)
             b2 == WriteVisible(b1, x < 15, x + 1, y, z, TRUE)
             b3 == WriteVisible(b2, y > 0, x, y - 1, z, TRUE)
             b4 == WriteVisible(b3, y < 15, x, y + 1, z, TRUE)
             b5 == WriteVisible(b4, z > 0, x, y, z - 1, TRUE)
             b6 == WriteVisible(b5, z < 15, x, y, z + 1, TRUE)
         IN  b6

\* The second half: one ring of propagation when the new block is transparent and the cell visible.
Propagate(acc, transparent, x, y, z) ==
    IF acc.panicked \/ ~(transparent /\ acc.is_visible) THEN acc
    ELSE LET b1 == WriteVisible(acc, x > 0, x - 1, y, z, TRUE)
             b2 == WriteVisible(b1, x < 15, x + 1, y, z, TRUE)
             b3 == WriteVisible(b2, y > 0, x, y - 1, z, TRUE)
             b4 == WriteVisible(b3, y < 15, x, y + 1, z, TRUE)
             b5 == WriteVisible(b4, z > 0, x, y, z - 1, TRUE)
             b6 == WriteVisible(b5, z < 15, x, y, z + 1, TRUE)
         IN  b6

\* update_visible on a chunk whose block at (x,y,z) is already stored: [panicked, chunk].
update_visible(c, x, y, z) ==
    LET own == OwnVisible(c.visible, x, y, z)
        set == WriteVisible(own, TRUE, x, y, z, own.is_visible)
        \* self.get_ref(x,y,z).transparent: the index was accepted by set_visible just before
        out == IF set.panicked THEN set
               ELSE Propagate(set, get_ref(c, x, y, z).transparent, x, y, z)
    IN  [panicked |-> out.panicked, chunk |-> [c EXCEPT !.visible = out.visible]]

\* self.needs_remesh = true
DirtyAfterSetBlock(c) == [c EXCEPT !.needs_remesh = TRUE]

\* set_block: get_ref_mut's store, update_visible, then the dirty flag.  [panicked, chunk];
\* a panic keeps what was written before it.
set_block(c, x, y, z, b) ==
    IF ~IndexOk(Lin(x, y, z)) THEN [panicked |-> TRUE, chunk |-> c]
    ELSE LET stored == [c EXCEPT !.blocks = [@ EXCEPT ![Lin(x, y, z)] = b]]
             upd == update_visible(stored, x, y, z)
         IN  IF upd.panicked THEN upd
             ELSE [panicked |-> FALSE, chunk |-> DirtyAfterSetBlock(upd.chunk)]

(***************************************************************************)
(* render/types.rs and world/mesher.rs                                     *)
(***************************************************************************)
\* The four vertices add_face pushes for each Dir, in push order: Vertex::from_pos of the
\* corner, with the texcoord and the normal the loop over slice_face stores on it.
FaceVertices(x, y, z, dir, t) ==
    CASE dir = "Up" ->
           <<[position |-> <<x, y + 1, z>>, texcoord |-> t.tr, normals |-> <<0, 1, 0>>],
             [position |-> <<x + 1, y + 1, z>>, texcoord |-> t.tl, normals |-> <<0, 1, 0>>],
             [position |-> <<x, y + 1, z + 1>>, texcoord |-> t.br, normals |-> <<0, 1, 0>>],
             [position |-> <<x + 1, y + 1, z + 1>>, texcoord |-> t.bl, normals |-> <<0, 1, 0>>]>>
      [] dir = "Down" ->
           <<[position |-> <<x, y, z>>, texcoord |-> t.tr, normals |-> <<0, -1, 0>>],
             [position |-> <<x, y, z + 1>>, texcoord |-> t.tl, normals |-> <<0, -1, 0>>],
             [position |-> <<x + 1, y, z>>, texcoord |-> t.br, normals |-> <<0, -1, 0>>],
             [position |-> <<x + 1, y, z + 1>>, texcoord |-> t.bl, normals |-> <<0, -1, 0>>]>>
      [] dir = "Right" ->
           <<[position |-> <<x, y, z>>, texcoord |-> t.br, normals |-> <<-1, 0, 0>>],
             [position |-> <<x, y + 1, z>>, texcoord |-> t.tr, normals |-> <<-1, 0, 0>>],
             [position |-> <<x, y, z + 1>>, texcoord |-> t.bl, normals |-> <<-1, 0, 0>>],
             [position |-> <<x, y + 1, z + 1>>, texcoord |-> t.tl, normals |-> <<-1, 0, 0>>]>>
      [] dir = "Left" ->
           <<[position |-> <<x + 1, y, z>>, texcoord |-> t.bl, normals |-> <<1, 0, 0>>],
             [position |-> <<x + 1, y, z + 1>>, texcoord |-> t.br, normals |-> <<1, 0, 0>>],
             [position |-> <<x + 1, y + 1, z>>, texcoord |-> t.tl, normals |-> <<1, 0, 0>>],
             [position |-> <<x + 1, y + 1, z + 1>>, texcoord |-> t.tr, normals |-> <<1, 0, 0>>]>>
      [] dir = "Back" ->
           <<[position |-> <<x, y, z + 1>>, texcoord |-> t.br, normals |-> <<0, 0, 1>>],
             [position |-> <<x, y + 1, z + 1>>, texcoord |-> t.tr, normals |-> <<0, 0, 1>>],
             [position |-> <<x + 1, y, z + 1>>, texcoord |-> t.bl, normals |-> <<0, 0, 1>>],
             [position |-> <<x + 1, y + 1, z + 1>>, texcoord |-> t.tl, normals |-> <<0, 0, 1>>]>>
      [] dir = "Front" ->
           <<[position |-> <<x, y, z>>, texcoord |-> t.br, normals |-> <<0, 0, -1>>],
             [position |-> <<x + 1, y, z>>, texcoord |-> t.bl, normals |-> <<0, 0, -1>>],
             [position |-> <<x, y + 1, z>>, texcoord |-> t.tr, normals |-> <<0, 0, -1>>],
             [position |-> <<x + 1, y + 1, z>>, texcoord |-> t.tl, normals |-> <<0, 0, -1>>]>>

\* The six indices counted from the length of the index vector.
add_faceBad(m, x, y, z, dir, texcoords) ==
    [m EXCEPT
       !.vertices = @ \o FaceVertices(x, y, z, dir, texcoords),
       !.indices = @ \o <<Len(m.indices) + 1, Len(m.indices), Len(m.indices) + 2,
                          Len(m.indices) + 1, Len(m.indices) + 2, Len(m.indices) + 3>>]

\* The first triangle wound the other way round.
add_faceFlipped(m, x, y, z, dir, texcoords) ==
    [m EXCEPT
       !.vertices = @ \o FaceVertices(x, y, z, dir, texcoords),
       !.indices = @ \o <<Len(m.vertices), Len(m.vertices) + 1, Len(m.vertices) + 2,
                          Len(m.vertices) + 1, Len(m.vertices) + 2, Len(m.vertices) + 3>>]

\* add_face on the accumulator m = [panicked, vertices, indices].
add_face(m, x, y, z, dir, texcoords) ==
    LET face_start == Len(m.vertices)
    IN  [m EXCEPT
           !.vertices = @ \o FaceVertices(x, y, z, dir, texcoords),
           !.indices = @ \o <<face_start + 1, face_start, face_start + 2,
                              face_start + 1, face_start + 2, face_start + 3>>]

\* The face pushed without asking the atlas.
EmitFaceBad(m, lookup_table, tex, x, y, z, dir) ==
    IF tex = None THEN [m EXCEPT !.panicked = TRUE]
    ELSE add_face(m, x, y, z, dir, coords_of(lookup_table, tex[1]))

\* `let coords = atlas.coords_of(tex.as_ref().unwrap()); if coords.is_ok() { add_face(..) }`
EmitFace(m, lookup_table, tex, x, y, z, dir) ==
    IF tex = None THEN [m EXCEPT !.panicked = TRUE]
    ELSE IF ~coords_of_ok(lookup_table, tex[1]) THEN m
    ELSE add_face(m, x, y, z, dir, coords_of(lookup_table, tex[1]))

\* A positive direction, `c + 1 < CHUNK_WIDTH && chunk.get_ref(neighbour).transparent`,
\* c the coordinate that moves and (nx,ny,nz) the neighbour.
PositiveFace(m, c, lookup_table, tex, coord, nx, ny, nz, x, y, z, dir) ==
    IF m.panicked THEN m
    ELSE IF coord + 1 < CHUNK_WIDTH /\ get_ref(c, nx, ny, nz).transparent
         THEN EmitFace(m, lookup_table, tex, x, y, z, dir)
         ELSE m

\* `v > 0` on a usize v (a wrapped value is kept negative, and is above 0).
UsizeGtZero(v) == v # 0

\* A negative direction, `c - 1 > 0 && chunk.get_ref(neighbour).transparent`.  At c = 0
\* the usize subtraction overflows: a panic with overflow checks, otherwise the wrapped
\* value (kept as -1), which is > 0, goes into get_ref with the coordinate (nx,ny,nz)
\* and the index arithmetic wraps again.
NegativeFace(m, c, oc, lookup_table, tex, coord, nx, ny, nz, x, y, z, dir) ==
    IF m.panicked THEN m
    ELSE IF coord = 0 /\ oc THEN [m EXCEPT !.panicked = TRUE]
    ELSE IF ~UsizeGtZero(coord - 1) THEN m
    ELSE IF ~get_ref_ok(c, nx, ny, nz) THEN [m EXCEPT !.panicked = TRUE]
    ELSE IF get_ref(c, nx, ny, nz).transparent
         THEN EmitFace(m, lookup_table, tex, x, y, z, dir)
         ELSE m

\* The loop body without `if block.invisible { continue; }`.
GreedyCellBad(m, c, oc, lookup_table, reg, x, y, z) ==
    IF m.panicked THEN m
    ELSE IF ~HasUint(reg, get_ref(c, x, y, z).desc_index) THEN [m EXCEPT !.panicked = TRUE]
    ELSE NegativeFace(
           NegativeFace(
             NegativeFace(
               PositiveFace(
                 PositiveFace(
                   PositiveFace(m, c, lookup_table,
                                get_uint(reg, get_ref(c, x, y, z).desc_index).top_texture,
                                y, x, y + 1, z, x, y, z, "Up"),
                   c, lookup_table,
                   get_uint(reg, get_ref(c, x, y, z).desc_index).side_textures[4],
                   x, x + 1, y, z, x, y, z, "Left"),
                 c, lookup_table,
                 get_uint(reg, get_ref(c, x, y, z).desc_index).side_textures[3],
                 z, x, y, z + 1, x, y, z, "Back"),
               c, oc, lookup_table,
               get_uint(reg, get_ref(c, x, y, z).desc_index).bottom_texture,
               y, x, y - 1, z, x, y, z, "Down"),
             c, oc, lookup_table,
             get_uint(reg, get_ref(c, x, y, z).desc_index).side_textures[2],
             x, x - 1, y, z, x, y, z, "Right"),
           c, oc, lookup_table,
           get_uint(reg, get_ref(c, x, y, z).desc_index).side_textures[1],
           z, x, y, z - 1, x, y, z, "Front")

\* The body of greedy's innermost loop for the cell (x,y,z).
GreedyCell(m, c, oc, lookup_table, reg, x, y, z) ==
    IF m.panicked THEN m
    ELSE LET blk == get_ref(c, x, y, z)
         IN  IF ~HasUint(reg, blk.desc_index) THEN [m EXCEPT !.panicked = TRUE]
             ELSE IF blk.invisible THEN m
             ELSE LET desc == get_uint(reg, blk.desc_index)
                      f1 == PositiveFace(m, c, lookup_table, desc.top_texture,
                                         y, x, y + 1, z, x, y, z, "Up")
                      f2 == PositiveFace(f1, c, lookup_table, desc.side_textures[4],
                                         x, x + 1, y, z, x, y, z, "Left")
                      f3 == PositiveFace(f2, c, lookup_table, desc.side_textures[3],
                                         z, x, y, z + 1, x, y, z, "Back")
                      f4 == NegativeFace(f3, c, oc, lookup_table, desc.bottom_texture,
                                         y, x, y - 1, z, x, y, z, "Down")
                      f5 == NegativeFace(f4, c, oc, lookup_table, desc.side_textures[2],
                                         x, x - 1, y, z, x, y, z, "Right")
                      f6 == NegativeFace(f5, c, oc, lookup_table, desc.side_textures[1],
                                         z, x, y, z - 1, x, y, z, "Front")
                  IN  f6

\* for z in 0..CHUNK_WIDTH
RECURSIVE GreedyZ(_, _, _, _, _, _, _, _)
GreedyZ(m, c, oc, lookup_table, reg, x, y, z) ==
    IF m.panicked \/ z >= CHUNK_WIDTH THEN m
    ELSE GreedyZ(GreedyCell(m, c, oc, lookup_table, reg, x, y, z),
                 c, oc, lookup_table, reg, x, y, z + 1)

\* for y in 0..CHUNK_WIDTH
RECURSIVE GreedyY(_, _, _, _, _, _, _)
GreedyY(m, c, oc, lookup_table, reg, x, y) ==
    IF m.panicked \/ y >= CHUNK_WIDTH THEN m
    ELSE GreedyY(GreedyZ(m, c, oc, lookup_table, reg, x, y, 0),
                 c, oc, lookup_table, reg, x, y + 1)

\* for x in 0..CHUNK_WIDTH
RECURSIVE GreedyX(_, _, _, _, _, _)
GreedyX(m, c, oc, lookup_table, reg, x) ==
    IF m.panicked \/ x >= CHUNK_WIDTH THEN m
    ELSE GreedyX(GreedyY(m, c, oc, lookup_table, reg, x, 0),
                 c, oc, lookup_table, reg, x + 1)

\* greedy(chunk, atlas, block_registry): [panicked, vertices, indices]; a panic drops the
\* partial vectors with the frame.
greedy(c, oc, lookup_table, reg) ==
    LET m == GreedyX([panicked |-> FALSE, vertices |-> <<>>, indices |-> <<>>],
                     c, oc, lookup_table, reg, 0)
    IN  IF m.panicked THEN [panicked |-> TRUE, vertices |-> <<>>, indices |-> <<>>] ELSE m

\* The cache returned without looking at needs_remesh.
CacheAfterGetMeshBad(c, fresh) == c.vert_cache

\* vert_cache after `if self.needs_remesh { self.vert_cache = greedy(..) }`.
CacheAfterGetMesh(c, fresh) == IF c.needs_remesh THEN fresh ELSE c.vert_cache

\* Chunk::get_mesh: [panicked, chunk, mesh].
get_mesh(c, oc, lookup_table, reg) ==
    LET g == IF c.needs_remesh THEN greedy(c, oc, lookup_table, reg)
             ELSE [panicked |-> FALSE, vertices |-> <<>>, indices |-> <<>>]
    IN  IF g.panicked THEN [panicked |-> TRUE, chunk |-> c, mesh |-> EmptyMesh]
        ELSE LET cache == CacheAfterGetMesh(c, [vertices |-> g.vertices, indices |-> g.indices])
             IN  [panicked |-> FALSE, chunk |-> [c EXCEPT !.vert_cache = cache], mesh |-> cache]

(***************************************************************************)
(* world/mod.rs: the generators and World::generate_chunk                  *)
(***************************************************************************)
\* The squared distance compared with the radius itself.
in_sphereBad(x, y, z, r) ==
    (x - 8) * (x - 8) + (y - 8) * (y - 8) + (z - 8) * (z - 8) < r

\* sqrt(d2) < r on f32 is d2 < r*r here: d2 is an integer below 2^24 and r = 18.0.
in_sphere(x, y, z, r) ==
    LET h == CHUNK_WIDTH \div 2
        d2 == (x - h) * (x - h) + (y - h) * (y - h) + (z - h) * (z - h)
    IN  d2 < r * r

\* The surface test made on the cell below.
GenBalls_atBad(x, y, z) ==
    IF in_sphere(x, y, z, 18)
    THEN IF in_sphere(x, y - 1, z, 18) THEN "dirt" ELSE "grass"
    ELSE "air"

\* GenBalls::at: the name it asks the palette for.
GenBalls_at(x, y, z) ==
    IF in_sphere(x, y, z, 18)
    THEN IF in_sphere(x, y + 1, z, 18) THEN "dirt" ELSE "grass"
    ELSE "air"

\* for z / for y / for x in generate_chunk, acc = [panicked, chunk]; palette.block panics on a miss.
RECURSIVE GenZ(_, _, _, _, _)
GenZ(acc, reg, x, y, z) ==
    IF z >= CHUNK_WIDTH \/ acc.panicked THEN acc
    ELSE IF ~HasStr(reg, GenBalls_at(x, y, z)) THEN [acc EXCEPT !.panicked = TRUE]
    ELSE GenZ(set_block(acc.chunk, x, y, z, block(reg, GenBalls_at(x, y, z))), reg, x, y, z + 1)

RECURSIVE GenY(_, _, _, _)
GenY(acc, reg, x, y) ==
    IF y >= CHUNK_WIDTH \/ acc.panicked THEN acc
    ELSE GenY(GenZ(acc, reg, x, y, 0), reg, x, y + 1)

RECURSIVE GenX(_, _, _)
GenX(acc, reg, x) ==
    IF x >= CHUNK_WIDTH \/ acc.panicked THEN acc
    ELSE GenX(GenY(acc, reg, x, 0), reg, x + 1)

\* The chunk generate_chunk builds when the position is free and the generator is GenBalls.
generate_chunk(reg) == GenX([panicked |-> FALSE, chunk |-> Chunk_new], reg, 0)

(***************************************************************************)
(* The chunk as a state machine: the calls a holder of a Chunk can make.   *)
(* Coordinates and blocks are drawn from small sets.                       *)
(***************************************************************************)
\* In-range cells the calls address: an interior cell and its +Z neighbour, and the two
\* opposite corners of the chunk.
InCells == {<<2, 2, 2>>, <<2, 2, 3>>, <<0, 0, 0>>, <<15, 15, 15>>}

\* Coordinates with one component at CHUNK_WIDTH: the first flattens to an index inside
\* the arrays, the second to one past their end.
OutCells == {<<0, 16, 0>>, <<16, 0, 0>>}

BlockNames == {"air", "dirt", "glass"}

NoCall ==
    [op |-> "new", x |-> 0, y |-> 0, z |-> 0, block |-> AIR, flag |-> TRUE,
     name |-> "", id |-> 0, pos |-> <<0, 0, 0>>,
     outcome |-> "ok", ret_block |-> AIR, ret_mesh |-> EmptyMesh, ret_desc |-> None,
     ret_chunk |-> None, generated |-> FALSE]

NoMutex == [data |-> <<>>, owner |-> <<>>, holder |-> None]

\* No world is in play: the chunk is used on its own.
NoWorld ==
    /\ chunks = <<>>
    /\ pc = <<>>
    /\ local = <<>>
    /\ vertices_mutex = NoMutex
    /\ indices_mutex = NoMutex
    /\ chunks_completed = 0
    /\ mm = [status |-> "idle", vertices |-> <<>>, indices |-> <<>>]

Init ==
    /\ overflow_checks \in BOOLEAN
    /\ script = <<>>
    /\ palette = ChunkPalette
    /\ registered = ChunkDescs
    /\ atlas = FullAtlas
    /\ chunk = Chunk_new
    /\ last = NoCall
    /\ calls = MaxCalls
    /\ halted = FALSE
    /\ NoWorld

Outcome(panicked) == IF panicked THEN "panic" ELSE "ok"

\* let chunk = world.generate_chunk(position, palette) on a free position: the caller owns
\* the chunk it returns.
GenerateChunk ==
    /\ ~halted /\ calls > 0 /\ last.op = "new"
    /\ LET r == generate_chunk(palette)
       IN  /\ chunk' = r.chunk
           /\ halted' = r.panicked
           /\ last' = [NoCall EXCEPT !.op = "generate_chunk", !.outcome = Outcome(r.panicked)]
    /\ calls' = calls - 1
    /\ UNCHANGED <<overflow_checks, script, palette, registered, atlas, world_vars>>

SetBlock(x, y, z, name) ==
    /\ ~halted /\ calls > 0
    /\ LET b == block(palette, name)
           r == set_block(chunk, x, y, z, b)
       IN  /\ chunk' = r.chunk
           /\ halted' = r.panicked
           /\ last' = [NoCall EXCEPT !.op = "set_block", !.x = x, !.y = y, !.z = z,
                                     !.block = b, !.outcome = Outcome(r.panicked)]
    /\ calls' = calls - 1
    /\ UNCHANGED <<overflow_checks, script, palette, registered, atlas, world_vars>>

GetRef(x, y, z) ==
    /\ ~halted /\ calls > 0
    /\ LET ok == get_ref_ok(chunk, x, y, z)
       IN  /\ halted' = ~ok
           /\ last' = [NoCall EXCEPT !.op = "get_ref", !.x = x, !.y = y, !.z = z,
                                     !.outcome = Outcome(~ok),
                                     !.ret_block = IF ok THEN get_ref(chunk, x, y, z) ELSE AIR]
    /\ calls' = calls - 1
    /\ UNCHANGED <<overflow_checks, script, palette, registered, atlas, chunk, world_vars>>

SetVisible(x, y, z, v) ==
    /\ ~halted /\ calls > 0
    /\ chunk' = [chunk EXCEPT !.visible = [@ EXCEPT ![Lin(x, y, z)] = v]]
    /\ last' = [NoCall EXCEPT !.op = "set_visible", !.x = x, !.y = y, !.z = z, !.flag = v]
    /\ calls' = calls - 1
    /\ UNCHANGED <<overflow_checks, script, palette, registered, atlas, halted, world_vars>>

GetMesh ==
    /\ ~halted /\ calls > 0
    /\ LET r == get_mesh(chunk, overflow_checks, atlas, palette)
       IN  /\ chunk' = r.chunk
           /\ halted' = r.panicked
           /\ last' = [NoCall EXCEPT !.op = "get_mesh", !.outcome = Outcome(r.panicked),
                                     !.ret_mesh = r.mesh]
    /\ calls' = calls - 1
    /\ UNCHANGED <<overflow_checks, script, palette, registered, atlas, world_vars>>

Next ==
    \/ GenerateChunk
    \/ \E c \in InCells \cup OutCells, n \in BlockNames : SetBlock(c[1], c[2], c[3], n)
    \/ \E c \in InCells \cup OutCells : GetRef(c[1], c[2], c[3])
    \/ GetMesh

Spec == Init /\ [][Next]_vars

\* Longer runs of set_block and get_mesh alone, on two cells.
CacheCells == {<<2, 2, 2>>, <<15, 15, 15>>}

InitCache ==
    /\ overflow_checks \in BOOLEAN
    /\ script = <<>>
    /\ palette = ChunkPalette
    /\ registered = ChunkDescs
    /\ atlas = FullAtlas
    /\ chunk = Chunk_new
    /\ last = NoCall
    /\ calls = MaxCacheCalls
    /\ halted = FALSE
    /\ NoWorld

NextCache ==
    \/ \E c \in CacheCells, n \in {"air", "dirt"} : SetBlock(c[1], c[2], c[3], n)
    \/ GetMesh

SpecCache == InitCache /\ [][NextCache]_vars

\* The chunk meshed against atlases that lack textures of the blocks it holds.
MaxAtlasCalls == 3

AtlasChoices ==
    {FullAtlas, FullAtlas \ {"grass_top"}, FullAtlas \ {"grass_side", "grass_bottom"}}

AtlasCells == {<<2, 2, 2>>, <<2, 2, 3>>, <<0, 0, 0>>}

InitAtlas ==
    /\ overflow_checks \in BOOLEAN
    /\ script = <<>>
    /\ palette = ChunkPalette
    /\ registered = ChunkDescs
    /\ atlas \in AtlasChoices
    /\ chunk = Chunk_new
    /\ last = NoCall
    /\ calls = MaxAtlasCalls
    /\ halted = FALSE
    /\ NoWorld

NextAtlas ==
    \/ \E c \in AtlasCells, n \in {"air", "grass"} : SetBlock(c[1], c[2], c[3], n)
    \/ GetMesh

SpecAtlas == InitAtlas /\ [][NextAtlas]_vars

\* A scripted run: set_block calls on in-range cells, each one logged.
MaxScriptCalls == 2

ScriptedSetBlock(x, y, z, name) ==
    /\ ~halted /\ calls > 0
    /\ \E r \in {set_block(chunk, x, y, z, block(palette, name))} :
         /\ chunk' = r.chunk
         /\ halted' = r.panicked
         /\ last' = [NoCall EXCEPT !.op = "set_block", !.x = x, !.y = y, !.z = z,
                                   !.block = block(palette, name),
                                   !.outcome = Outcome(r.panicked)]
    /\ script' = Append(script, [x |-> x, y |-> y, z |-> z, block |-> block(palette, name)])
    /\ calls' = calls - 1
    /\ UNCHANGED <<overflow_checks, palette, registered, atlas, world_vars>>

InitScript ==
    /\ overflow_checks \in BOOLEAN
    /\ script = <<>>
    /\ palette = ChunkPalette
    /\ registered = ChunkDescs
    /\ atlas = FullAtlas
    /\ chunk = Chunk_new
    /\ last = NoCall
    /\ calls = MaxScriptCalls
    /\ halted = FALSE
    /\ NoWorld

NextScript == \E c \in InCells, n \in BlockNames : ScriptedSetBlock(c[1], c[2], c[3], n)

SpecScript == InitScript /\ [][NextScript]_vars

\* The same chunk with set_visible, a public method, among the calls: the only way a
\* visible bit becomes false.
NextVisible ==
    \/ \E c \in InCells, n \in BlockNames : SetBlock(c[1], c[2], c[3], n)
    \/ \E c \in InCells, v \in BOOLEAN : SetVisible(c[1], c[2], c[3], v)

SpecVisible == Init /\ [][NextVisible]_vars

(***************************************************************************)
(* world/mod.rs: World::make_mesh.  The closure par_iter_mut runs for each *)
(* chunk is a task; tasks interleave freely between their statements.      *)
(* pc[p] names what the task for the chunk at p does next:                 *)
(*   "mesh"      get_mesh and the translation of its vertices              *)
(*   "lock_v"    vertices_mutex.lock()                                     *)
(*   "append_v"  append under the lock, the guard dropped after it         *)
(*   "lock_i"    indices_mutex.lock()                                      *)
(*   "append_i"  rebase and append under the lock, the guard dropped       *)
(*   "count"     chunks_completed.fetch_add(1)                             *)
(*   "done", or "panicked" when get_mesh panicked.                         *)
(* local[p].on names the closure on whose worker thread the closure for p   *)
(* was started while that one waited inside a parallel call of its own;     *)
(* None when it runs on a thread of its own.                                *)
(***************************************************************************)
\* f32 holds an integer exactly up to 2^24 in magnitude; above it the representable
\* integers are Ulp apart, Ulp doubling with every further bit.
RECURSIVE Ulp(_)
Ulp(a) == IF a < 16777216 THEN 1 ELSE 2 * Ulp(a \div 2)

\* `n as f32`, and the rounding of an f32 sum whose exact value is the integer n: the
\* nearest representable value, ties to the one with the even mantissa.
F32(n) ==
    LET a == IF n < 0 THEN 0 - n ELSE n
        u == Ulp(a)
        lo == (a \div u) * u
        up == lo + u
        m == IF 2 * (a - lo) < u THEN lo
             ELSE IF 2 * (a - lo) > u THEN up
             ELSE IF (lo \div u) % 2 = 0 THEN lo ELSE up
    IN  IF n < 0 THEN 0 - m ELSE m

\* The translation with the chunk coordinate itself as the offset, not 16 times it.
TranslateVertexBad(v, p) ==
    [v EXCEPT !.position = <<@[1] + p[1], @[2] + p[2], @[3] + p[3]>>]

\* x.position[k] += (p[k]*CHUNK_WIDTH as isize) as f32, for every vertex.
TranslateVertex(v, p) ==
    [v EXCEPT !.position = <<F32(@[1] + F32(p[1] * CHUNK_WIDTH)),
                             F32(@[2] + F32(p[2] * CHUNK_WIDTH)),
                             F32(@[3] + F32(p[3] * CHUNK_WIDTH))>>]

Translate(vertices, p) == [k \in 1..Len(vertices) |-> TranslateVertex(vertices[k], p)]

SeqValues(q) == {q[k] : k \in 1..Len(q)}

\* The offset without the `+ 1`: the largest index already there.
RebaseOffsetNoPlusOne(indices) == MaxOf(SeqValues(indices))

\* The offset taken from the number of indices instead of the largest.
RebaseOffsetBad(indices) == Len(indices)

\* What the closure adds to each of its indices when the accumulator is not empty:
\* `x + max + 1`, max the largest index already there.
RebaseOffset(indices) == MaxOf(SeqValues(indices)) + 1

\* The index block of the closure: the accumulator after this chunk's indices went in.
MergeIndices(indices, own) ==
    IF indices = <<>> THEN indices \o own
    ELSE indices \o [k \in 1..Len(own) |-> own[k] + RebaseOffset(indices)]

Repeat(x, n) == [k \in 1..n |-> x]

\* The chunk positions of the worlds considered, negative coordinates among them.
ChunkPositions == <<<<0, 0, 0>>, <<-1, 0, 0>>, <<0, 1, -2>>, <<1, 0, 0>>>>

\* Chunk contents make_mesh is run on: a chunk as constructed, and chunks with one block
\* written whose meshes have six and three faces.
SixFaceChunk == set_block(Chunk_new, 2, 2, 2, block(ChunkPalette, "dirt")).chunk

ThreeFaceChunk == set_block(Chunk_new, 15, 15, 15, block(ChunkPalette, "dirt")).chunk

ChunkShapes == {Chunk_new, SixFaceChunk, ThreeFaceChunk}

\* A chunk position 2^20 chunks out: 16 times it is 2^24, where f32 stops holding every
\* integer.
FarPosition == <<1048576, 0, -1048577>>

\* The chunk the shipped generator produces for every position.
GeneratedChunk == generate_chunk(ChunkPalette).chunk

\* One block at the low corner, where the mesher fails on the first cell.
CornerChunk == set_block(Chunk_new, 0, 0, 0, block(ChunkPalette, "dirt")).chunk

Positions == DOMAIN chunks

MeshTask(p) ==
    /\ mm.status = "running" /\ pc[p] = "mesh"
    /\ \E r \in {get_mesh(chunks[p], overflow_checks, atlas, palette)} :
           IF r.panicked
           THEN /\ pc' = [pc EXCEPT ![p] = "panicked"]
                /\ UNCHANGED <<chunks, local>>
           ELSE /\ pc' = [pc EXCEPT ![p] = "lock_v"]
                /\ chunks' = [chunks EXCEPT ![p] = r.chunk]
                /\ local' = [local EXCEPT ![p] = [verts_wait |-> Translate(r.mesh.vertices, p),
                                                  indices |-> r.mesh.indices,
                                                  on |-> None]]
    /\ UNCHANGED <<overflow_checks, script, palette, registered, atlas, chunk_vars,
                   vertices_mutex, indices_mutex, chunks_completed, mm>>

LockVertices(p) ==
    /\ mm.status = "running" /\ pc[p] = "lock_v"
    /\ vertices_mutex.holder = None
    /\ vertices_mutex' = [vertices_mutex EXCEPT !.holder = Some(p)]
    /\ pc' = [pc EXCEPT ![p] = "append_v"]
    /\ UNCHANGED <<overflow_checks, script, palette, registered, atlas, chunk_vars,
                   chunks, local, indices_mutex, chunks_completed, mm>>

AppendVertices(p) ==
    /\ mm.status = "running" /\ pc[p] = "append_v"
    /\ vertices_mutex' = [data |-> vertices_mutex.data \o local[p].verts_wait,
                          owner |-> vertices_mutex.owner \o Repeat(p, Len(local[p].verts_wait)),
                          holder |-> None]
    /\ pc' = [pc EXCEPT ![p] = "lock_i"]
    /\ UNCHANGED <<overflow_checks, script, palette, registered, atlas, chunk_vars,
                   chunks, local, indices_mutex, chunks_completed, mm>>

LockIndices(p) ==
    /\ mm.status = "running" /\ pc[p] = "lock_i"
    /\ indices_mutex.holder = None
    /\ indices_mutex' = [indices_mutex EXCEPT !.holder = Some(p)]
    /\ pc' = [pc EXCEPT ![p] = "append_i"]
    /\ UNCHANGED <<overflow_checks, script, palette, registered, atlas, chunk_vars,
                   chunks, local, vertices_mutex, chunks_completed, mm>>

\* The closures started on the worker thread of the closure for p.
Nested(p) == {q \in Positions : local[q].on = Some(p)}

AppendIndices(p) ==
    /\ mm.status = "running" /\ pc[p] = "append_i"
    /\ \A q \in Nested(p) : pc[q] \in {"done", "panicked"}
    /\ indices_mutex' = [data |-> MergeIndices(indices_mutex.data, local[p].indices),
                         owner |-> indices_mutex.owner \o Repeat(p, Len(local[p].indices)),
                         holder |-> None]
    /\ pc' = [pc EXCEPT ![p] = "count"]
    /\ UNCHANGED <<overflow_checks, script, palette, registered, atlas, chunk_vars,
                   chunks, local, vertices_mutex, chunks_completed, mm>>

CountTask(p) ==
    /\ mm.status = "running" /\ pc[p] = "count"
    /\ chunks_completed' = chunks_completed + 1
    /\ pc' = [pc EXCEPT ![p] = "done"]
    /\ UNCHANGED <<overflow_checks, script, palette, registered, atlas, chunk_vars,
                   chunks, local, vertices_mutex, indices_mutex, mm>>

\* Every closure has returned: the two accumulators are cloned and returned.
ReturnMesh ==
    /\ mm.status = "running"
    /\ \A p \in Positions : pc[p] = "done"
    /\ mm' = [status |-> "returned", vertices |-> vertices_mutex.data,
              indices |-> indices_mutex.data]
    /\ UNCHANGED <<overflow_checks, script, palette, registered, atlas, chunk_vars,
                   chunks, pc, local, vertices_mutex, indices_mutex, chunks_completed>>

\* A closure panicked: the pool lets the closures already running finish, may skip the
\* ones not started, and resumes the panic in the caller.
PropagatePanic ==
    /\ mm.status = "running"
    /\ \E p \in Positions : pc[p] = "panicked"
    /\ \A p \in Positions : pc[p] \in {"mesh", "done", "panicked"}
    /\ mm' = [status |-> "panicked", vertices |-> <<>>, indices |-> <<>>]
    /\ UNCHANGED <<overflow_checks, script, palette, registered, atlas, chunk_vars,
                   chunks, pc, local, vertices_mutex, indices_mutex, chunks_completed>>

\* No stand-alone chunk is in play.
NoChunk == [blocks |-> <<>>, visible |-> <<>>, needs_remesh |-> FALSE, vert_cache |-> EmptyMesh]

\* make_mesh has just been entered on a world of up to MaxChunks chunks.
InitMakeMesh ==
    /\ overflow_checks \in BOOLEAN
    /\ script = <<>>
    /\ palette = ChunkPalette
    /\ registered = ChunkDescs
    /\ atlas = FullAtlas
    /\ chunk = NoChunk /\ last = NoCall /\ calls = 0 /\ halted = FALSE
    /\ \E n \in 0..MaxChunks :
         LET ps == {ChunkPositions[k] : k \in 1..n}
         IN  /\ \/ chunks \in [ps -> ChunkShapes]
                \/ chunks = [p \in ps |-> GeneratedChunk]
                \/ chunks \in [{FarPosition} -> ChunkShapes]
             /\ pc = [p \in DOMAIN chunks |-> "mesh"]
             /\ local = [p \in DOMAIN chunks |->
                            [verts_wait |-> <<>>, indices |-> <<>>, on |-> None]]
    /\ vertices_mutex = NoMutex
    /\ indices_mutex = NoMutex
    /\ chunks_completed = 0
    /\ mm = [status |-> "running", vertices |-> <<>>, indices |-> <<>>]

NextMakeMesh ==
    \/ \E p \in Positions : MeshTask(p)
    \/ \E p \in Positions : LockVertices(p)
    \/ \E p \in Positions : AppendVertices(p)
    \/ \E p \in Positions : LockIndices(p)
    \/ \E p \in Positions : AppendIndices(p)
    \/ \E p \in Positions : CountTask(p)
    \/ ReturnMesh
    \/ PropagatePanic

SpecMakeMesh == InitMakeMesh /\ [][NextMakeMesh]_vars

\* Some closure has not yet run get_mesh.
MeshTaskEnabled == mm.status = "running" /\ \E p \in Positions : pc[p] = "mesh"

\* The steps of make_mesh after get_mesh.
MergeSteps ==
    \/ \E p \in Positions : LockVertices(p)
    \/ \E p \in Positions : AppendVertices(p)
    \/ \E p \in Positions : LockIndices(p)
    \/ \E p \in Positions : AppendIndices(p)
    \/ \E p \in Positions : CountTask(p)
    \/ ReturnMesh
    \/ PropagatePanic

\* The worker threads are scheduled by the operating system, the pool starts every
\* closure and a free mutex is granted: make_mesh does not stop while one of its steps
\* can be taken.  For the get_mesh step, taken once per closure, weak fairness is
\* written with its enabling condition spelled out.
SpecMakeMeshFair == SpecMakeMesh /\ WF_vars(MergeSteps) /\ []<>(~MeshTaskEnabled)

(***************************************************************************)
(* world/mod.rs: World::make_mesh on the work-stealing pool.  The closure  *)
(* rebases its indices with `_indices.into_par_iter().map(..).collect()`   *)
(* while it holds the guard of indices_mutex.  A worker that waits there   *)
(* for a part of the map another worker has taken does not sleep: it takes *)
(* other pending work of the pool, and the pending work of make_mesh is    *)
(* the closures of the chunks not yet started.                             *)
(***************************************************************************)
\* The closure for q starts on the worker of the closure for p, which holds the index
\* lock and waits inside its parallel map: get_mesh of q runs there.
StolenMeshTask(p, q) ==
    /\ mm.status = "running"
    /\ pc[p] = "append_i" /\ Nested(p) = {}
    /\ indices_mutex.data # <<>> /\ Len(local[p].indices) > 1
    /\ q # p /\ pc[q] = "mesh"
    /\ \E r \in {get_mesh(chunks[q], overflow_checks, atlas, palette)} :
           IF r.panicked
           THEN /\ pc' = [pc EXCEPT ![q] = "panicked"]
                /\ local' = [local EXCEPT ![q].on = Some(p)]
                /\ UNCHANGED chunks
           ELSE /\ pc' = [pc EXCEPT ![q] = "lock_v"]
                /\ chunks' = [chunks EXCEPT ![q] = r.chunk]
                /\ local' = [local EXCEPT ![q] = [verts_wait |-> Translate(r.mesh.vertices, q),
                                                  indices |-> r.mesh.indices,
                                                  on |-> Some(p)]]
    /\ UNCHANGED <<overflow_checks, script, palette, registered, atlas, chunk_vars,
                   vertices_mutex, indices_mutex, chunks_completed, mm>>

\* indices_mutex.lock() on the thread that already holds the guard: the call does not
\* return.  It blocks for ever (no step) or it panics (this step).
RelockPanics(q) ==
    /\ mm.status = "running" /\ pc[q] = "lock_i"
    /\ local[q].on # None /\ indices_mutex.holder = local[q].on
    /\ pc' = [pc EXCEPT ![q] = "panicked"]
    /\ UNCHANGED <<overflow_checks, script, palette, registered, atlas, chunk_vars,
                   chunks, local, vertices_mutex, indices_mutex, chunks_completed, mm>>

\* The number of chunks of the world the pool is observed on.
PoolChunks == 3

PoolShapes == {SixFaceChunk, CornerChunk}

\* make_mesh has just been entered on a world of PoolChunks chunks with a block each.
InitPool ==
    /\ overflow_checks \in BOOLEAN
    /\ script = <<>>
    /\ palette = ChunkPalette
    /\ registered = ChunkDescs
    /\ atlas = FullAtlas
    /\ chunk = NoChunk /\ last = NoCall /\ calls = 0 /\ halted = FALSE
    /\ chunks \in [{ChunkPositions[k] : k \in 1..PoolChunks} -> PoolShapes]
    /\ \A k \in 1..(PoolChunks - 1) : chunks[ChunkPositions[k]] = SixFaceChunk
    /\ pc = [p \in DOMAIN chunks |-> "mesh"]
    /\ local = [p \in DOMAIN chunks |-> [verts_wait |-> <<>>, indices |-> <<>>, on |-> None]]
    /\ vertices_mutex = NoMutex
    /\ indices_mutex = NoMutex
    /\ chunks_completed = 0
    /\ mm = [status |-> "running", vertices |-> <<>>, indices |-> <<>>]

NextPool ==
    \/ NextMakeMesh
    \/ \E p \in Positions, q \in Positions : StolenMeshTask(p, q)
    \/ \E q \in Positions : RelockPanics(q)

SpecPool == InitPool /\ [][NextPool]_vars

(***************************************************************************)
(* render/block.rs as a state machine: a registry built call by call from  *)
(* the empty one, looked up between the calls, with a chunk whose cells    *)
(* take the Blocks the registry makes.                                     *)
(***************************************************************************)
\* Calls made on the registry and its chunk in a run.
MaxRegCalls == 4

\* "grass" again, under other flags and textures: add_block takes any descriptor.
GrassAgainDesc ==
    BlockDescriptor_new("grass", FALSE, TRUE, Some("glass"), Some("glass"),
        <<Some("glass"), Some("glass"), Some("glass"), Some("glass")>>)

RegDescs == {AirDesc, GrassDesc, DirtDesc, GrassAgainDesc}

RegNames == {"air", "grass", "dirt"}

RegIds == 0..MaxRegCalls

InitRegistry ==
    /\ overflow_checks \in BOOLEAN
    /\ script = <<>>
    /\ palette = BlockRegistry_default
    /\ registered = <<>>
    /\ atlas = FullAtlas
    /\ chunk = Chunk_new
    /\ last = NoCall
    /\ calls = MaxRegCalls
    /\ halted = FALSE
    /\ NoWorld

AddBlock(desc) ==
    /\ ~halted /\ calls > 0
    /\ palette' = add_block(palette, desc)
    /\ registered' = Append(registered, desc)
    /\ last' = [NoCall EXCEPT !.op = "add_block", !.name = desc.id]
    /\ calls' = calls - 1
    /\ UNCHANGED <<overflow_checks, script, atlas, chunk, halted, world_vars>>

GetStr(name) ==
    /\ ~halted /\ calls > 0
    /\ LET ok == HasStr(palette, name)
       IN  /\ halted' = ~ok
           /\ last' = [NoCall EXCEPT !.op = "get_str", !.name = name, !.outcome = Outcome(~ok),
                                     !.ret_desc = IF ok THEN Some(get_str(palette, name)) ELSE None]
    /\ calls' = calls - 1
    /\ UNCHANGED <<overflow_checks, script, palette, registered, atlas, chunk, world_vars>>

GetUint(id) ==
    /\ ~halted /\ calls > 0
    /\ LET ok == HasUint(palette, id)
       IN  /\ halted' = ~ok
           /\ last' = [NoCall EXCEPT !.op = "get_uint", !.id = id, !.outcome = Outcome(~ok),
                                     !.ret_desc = IF ok THEN Some(get_uint(palette, id)) ELSE None]
    /\ calls' = calls - 1
    /\ UNCHANGED <<overflow_checks, script, palette, registered, atlas, chunk, world_vars>>

BlockOf(name) ==
    /\ ~halted /\ calls > 0
    /\ LET ok == HasStr(palette, name)
       IN  /\ halted' = ~ok
           /\ last' = [NoCall EXCEPT !.op = "block", !.name = name, !.outcome = Outcome(~ok),
                                     !.ret_block = IF ok THEN block(palette, name) ELSE AIR]
    /\ calls' = calls - 1
    /\ UNCHANGED <<overflow_checks, script, palette, registered, atlas, chunk, world_vars>>

\* chunk.set_block(2, 2, 2, palette.block(name)) with a registered name; with another
\* name the call ends in palette.block, as BlockOf does.
NextRegistry ==
    \/ \E d \in RegDescs : AddBlock(d)
    \/ \E n \in RegNames : GetStr(n)
    \/ \E i \in RegIds : GetUint(i)
    \/ \E n \in RegNames : BlockOf(n)
    \/ \E n \in RegNames : HasStr(palette, n) /\ SetBlock(2, 2, 2, n)

SpecRegistry == InitRegistry /\ [][NextRegistry]_vars

(***************************************************************************)
(* world/mod.rs: the chunk map of the World.  World::new sets the          *)
(* generator to Some(GenBalls) and nothing changes it afterwards.          *)
(***************************************************************************)
\* Calls made on the world and the registry in a run.
MaxWorldCalls == 4

\* The registries the runs pass to the world: the one State::init builds, and that one
\* with "dirt" registered again, once and twice.
WorldPalettes ==
    {StateInitRegistry,
     add_block(StateInitRegistry, DirtDesc),
     add_block(add_block(StateInitRegistry, DirtDesc), DirtDesc)}

\* generate_chunk's loops, tabulated over those registries.
Generated == [reg \in WorldPalettes |-> generate_chunk(reg)]

\* World::get_chunk: is the result Ok.
get_chunk_ok(chs, position) == position \in DOMAIN chs

\* Generation run on an occupied position as well.
World_generate_chunkBad(chs, position, reg) == [result |-> "ok", out |-> Generated[reg]]

\* World::generate_chunk: Err on an occupied position, otherwise Ok with what the loops
\* built, out = [panicked, chunk].  The map is not written.
World_generate_chunk(chs, position, reg) ==
    IF position \in DOMAIN chs
    THEN [result |-> "err", out |-> [panicked |-> FALSE, chunk |-> NoChunk]]
    ELSE [result |-> "ok", out |-> Generated[reg]]

\* `if let Ok(x) = chunk { self.chunks.insert(position, x); }` and the expect() on the
\* lookup that follows, r the result of generate_chunk.
StoreGenerated(chs, position, r) ==
    IF r.out.panicked THEN [panicked |-> TRUE, chunks |-> chs, generated |-> TRUE]
    ELSE IF r.result = "ok"
    THEN [panicked |-> FALSE, chunks |-> Insert(chs, position, r.out.chunk), generated |-> TRUE]
    ELSE [panicked |-> TRUE, chunks |-> chs, generated |-> FALSE]

\* The generator run and its chunk stored whether or not the position is occupied.
get_chunk_or_generateBad(chs, position, reg) ==
    StoreGenerated(chs, position, World_generate_chunkBad(chs, position, reg))

\* World::get_chunk_or_generate: [panicked, chunks, generated]; the chunk returned is the
\* one the map holds at the position afterwards.
get_chunk_or_generate(chs, position, reg) ==
    IF position \in DOMAIN chs
    THEN [panicked |-> FALSE, chunks |-> chs, generated |-> FALSE]
    ELSE StoreGenerated(chs, position, World_generate_chunk(chs, position, reg))

WorldPositions == {ChunkPositions[1], ChunkPositions[2]}

\* World::new beside the registry State::init builds.
InitWorld ==
    /\ overflow_checks \in BOOLEAN
    /\ script = <<>>
    /\ palette = StateInitRegistry
    /\ registered = <<AirDesc, GrassDesc, DirtDesc>>
    /\ atlas = FullAtlas
    /\ chunk = NoChunk
    /\ last = NoCall
    /\ calls = MaxWorldCalls
    /\ halted = FALSE
    /\ NoWorld

WorldGetChunk(position) ==
    /\ ~halted /\ calls > 0
    /\ LET ok == get_chunk_ok(chunks, position)
       IN  last' = [NoCall EXCEPT !.op = "get_chunk", !.pos = position,
                                  !.outcome = IF ok THEN "ok" ELSE "err",
                                  !.ret_chunk = IF ok THEN Some(chunks[position]) ELSE None]
    /\ calls' = calls - 1
    /\ UNCHANGED <<overflow_checks, script, palette, registered, atlas, chunk, halted, world_vars>>

\* let c = world.generate_chunk(position, palette): an Ok chunk goes to the caller.
WorldGenerateChunk(position) ==
    /\ ~halted /\ calls > 0
    /\ \E r \in {World_generate_chunk(chunks, position, palette)} :
         /\ halted' = r.out.panicked
         /\ chunk' = IF r.out.panicked \/ r.result = "err" THEN chunk ELSE r.out.chunk
         /\ last' = [NoCall EXCEPT !.op = "world_generate_chunk", !.pos = position,
                                   !.outcome = IF r.out.panicked THEN "panic" ELSE r.result,
                                   !.ret_chunk = IF r.out.panicked \/ r.result = "err"
                                                 THEN None ELSE Some(r.out.chunk),
                                   !.generated = (r.result = "ok")]
    /\ calls' = calls - 1
    /\ UNCHANGED <<overflow_checks, script, palette, registered, atlas, world_vars>>

WorldGetChunkOrGenerate(position) ==
    /\ ~halted /\ calls > 0
    /\ \E r \in {get_chunk_or_generate(chunks, position, palette)} :
         /\ halted' = r.panicked
         /\ chunks' = r.chunks
         /\ last' = [NoCall EXCEPT !.op = "get_chunk_or_generate", !.pos = position,
                                   !.outcome = Outcome(r.panicked),
                                   !.ret_chunk = IF r.panicked THEN None
                                                 ELSE Some(r.chunks[position]),
                                   !.generated = r.generated]
    /\ calls' = calls - 1
    /\ UNCHANGED <<overflow_checks, script, palette, registered, atlas, chunk,
                   pc, local, vertices_mutex, indices_mutex, chunks_completed, mm>>

\* Between the calls on the world the registry may take "dirt" again, under a new id.
NextWorld ==
    \/ add_block(palette, DirtDesc) \in WorldPalettes /\ AddBlock(DirtDesc)
    \/ \E p \in WorldPositions : WorldGetChunk(p)
    \/ \E p \in WorldPositions : WorldGenerateChunk(p)
    \/ \E p \in WorldPositions : WorldGetChunkOrGenerate(p)

SpecWorld == InitWorld /\ [][NextWorld]_vars

(***************************************************************************)
(* world/mod.rs: GenBalls as a state machine.                              *)
(***************************************************************************)
\* The generator asked about single cells, cells beyond the chunk among them (`at` takes
\* any usize triple).
MaxProbeCalls == 1

ProbeXZ == {0, 8, 15, 20, 26}

ProbeY == 0..30

\* generator.at((x,y,z), palette): the name chosen, then palette.block(name).
GeneratorAt(x, y, z) ==
    /\ ~halted /\ calls > 0
    /\ \E n \in {GenBalls_at(x, y, z)} :
         /\ halted' = ~HasStr(palette, n)
         /\ last' = [NoCall EXCEPT !.op = "at", !.x = x, !.y = y, !.z = z, !.name = n,
                                   !.outcome = Outcome(~HasStr(palette, n)),
                                   !.ret_block = IF HasStr(palette, n) THEN block(palette, n)
                                                 ELSE AIR]
    /\ calls' = calls - 1
    /\ UNCHANGED <<overflow_checks, script, palette, registered, atlas, chunk, world_vars>>

InitGen ==
    /\ overflow_checks \in BOOLEAN
    /\ script = <<>>
    /\ palette = StateInitRegistry
    /\ registered = <<AirDesc, GrassDesc, DirtDesc>>
    /\ atlas = FullAtlas
    /\ chunk = NoChunk
    /\ last = NoCall
    /\ calls = MaxProbeCalls
    /\ halted = FALSE
    /\ NoWorld

NextGen == \E x \in ProbeXZ, y \in ProbeY, z \in ProbeXZ : GeneratorAt(x, y, z)

SpecGen == InitGen /\ [][NextGen]_vars

(***************************************************************************)
(* The claims.  Coordinates and indices are written out here as the        *)
(* specification states them, not through the operators above.             *)
(***************************************************************************)
InChunk(x, y, z) == x \in 0..15 /\ y \in 0..15 /\ z \in 0..15

FlatIndex(x, y, z) == x * 256 + y * 16 + z

\* The six axis neighbours of a cell, and those of them inside the chunk.
Around(x, y, z) ==
    {<<x - 1, y, z>>, <<x + 1, y, z>>, <<x, y - 1, z>>, <<x, y + 1, z>>,
     <<x, y, z - 1>>, <<x, y, z + 1>>}

NeighboursIn(x, y, z) == {n \in Around(x, y, z) : InChunk(n[1], n[2], n[3])}

AllCells == (0..15) \X (0..15) \X (0..15)

RECURSIVE SumOver(_, _)
SumOver(f, S) ==
    IF S = {} THEN 0
    ELSE LET e == CHOOSE e \in S : TRUE IN f[e] + SumOver(f, S \ {e})

\* What the mesher computes from the chunk at p of the world.
MeshOfChunk(p) == greedy(chunks[p], overflow_checks, atlas, palette)

C2_StitchedCounts ==
    mm.status = "returned" =>
        /\ Len(mm.vertices) = SumOver([p \in Positions |-> Len(MeshOfChunk(p).vertices)], Positions)
        /\ Len(mm.indices) = SumOver([p \in Positions |-> Len(MeshOfChunk(p).indices)], Positions)
        /\ \A k \in 1..Len(mm.indices) : mm.indices[k] < Len(mm.vertices)

\* C2's case: two chunks with meshes of six and three faces were merged and returned.
C2_Witness ==
    /\ mm.status = "returned"
    /\ Cardinality(Positions) = 2
    /\ Len(mm.vertices) = 36
    /\ Len(mm.indices) = 54

\* The texture name the descriptor holds for a direction (top, bottom, side_textures[0..4]
\* for -Z, -X, +Z, +X), and the neighbour cell in that direction.
DirTexture(desc, dir) ==
    CASE dir = "Up" -> desc.top_texture
      [] dir = "Down" -> desc.bottom_texture
      [] dir = "Front" -> desc.side_textures[1]
      [] dir = "Right" -> desc.side_textures[2]
      [] dir = "Back" -> desc.side_textures[3]
      [] dir = "Left" -> desc.side_textures[4]

DirNeighbour(x, y, z, dir) ==
    CASE dir = "Up" -> <<x, y + 1, z>>
      [] dir = "Down" -> <<x, y - 1, z>>
      [] dir = "Front" -> <<x, y, z - 1>>
      [] dir = "Right" -> <<x - 1, y, z>>
      [] dir = "Back" -> <<x, y, z + 1>>
      [] dir = "Left" -> <<x + 1, y, z>>

Dirs == {"Up", "Down", "Left", "Right", "Front", "Back"}

\* The mesh holds the quad of the face of cell (x,y,z) in direction dir.
HasFace(mesh, x, y, z, dir, tex) ==
    \E q \in 0..((Len(mesh.vertices) \div 4) - 1) :
        SubSeq(mesh.vertices, 4 * q + 1, 4 * q + 4)
            = FaceVertices(x, y, z, dir, coords_of(atlas, tex))

\* A face is exposed when its neighbour is outside the chunk or transparent.
Exposed(c, x, y, z, dir) ==
    LET n == DirNeighbour(x, y, z, dir)
    IN  ~InChunk(n[1], n[2], n[3]) \/ c.blocks[FlatIndex(n[1], n[2], n[3])].transparent

\* C3: a mesh get_mesh returned holds the face of a drawn cell in a direction (texture
\* packed) exactly when the neighbour there is outside the chunk or transparent.
C3_FaceIffExposed ==
    (last.op = "get_mesh" /\ last.outcome = "ok") =>
        \A c \in AllCells :
            LET blk == chunk.blocks[FlatIndex(c[1], c[2], c[3])]
            IN  ~blk.invisible =>
                  \A dir \in Dirs :
                      LET tex == DirTexture(palette.blocks[blk.desc_index], dir)
                      IN  (tex # None /\ tex[1] \in atlas) =>
                            (HasFace(last.ret_mesh, c[1], c[2], c[3], dir, tex[1])
                                <=> Exposed(chunk, c[1], c[2], c[3], dir))

\* C4: get_mesh on a chunk whose cells all hold the same opaque drawn block returns the
\* 1536 boundary faces: 6144 vertices and 9216 indices.
C4_SolidChunkBoundaryFaces ==
    (/\ last.op = "get_mesh"
     /\ \A i \in 0..4095 : chunk.blocks[i] = chunk.blocks[0]
     /\ ~chunk.blocks[0].invisible /\ ~chunk.blocks[0].transparent
     /\ \A dir \in Dirs :
            LET tex == DirTexture(palette.blocks[chunk.blocks[0].desc_index], dir)
            IN  tex # None /\ tex[1] \in atlas) =>
        /\ last.outcome = "ok"
        /\ Len(last.ret_mesh.vertices) = 6144
        /\ Len(last.ret_mesh.indices) = 9216

\* The step was a completed set_block on an in-range cell.
SetBlockStep ==
    /\ last'.op = "set_block" /\ last'.outcome = "ok"
    /\ InChunk(last'.x, last'.y, last'.z)

\* C5: set_block(x,y,z,b) leaves visible[x,y,z] true exactly when every in-bounds
\* neighbour's bit was true before the call.
C5_OwnBitFromNeighbours ==
    [][SetBlockStep =>
         (chunk'.visible[FlatIndex(last'.x, last'.y, last'.z)]
            <=> \A n \in NeighboursIn(last'.x, last'.y, last'.z) :
                    chunk.visible[FlatIndex(n[1], n[2], n[3])])]_vars

\* C5's case: a set_block on the interior cell (2,2,2) found a neighbour's bit false and
\* left the cell's own bit false.
C5_Witness ==
    /\ last.op = "set_block" /\ last.outcome = "ok"
    /\ <<last.x, last.y, last.z>> = <<2, 2, 2>>
    /\ ~chunk.visible[FlatIndex(2, 2, 3)]
    /\ ~chunk.visible[FlatIndex(2, 2, 2)]

\* f with the entries at the indices in S taken from g.
RECURSIVE Overlay(_, _, _)
Overlay(f, g, S) ==
    IF S = {} THEN f
    ELSE LET i == CHOOSE i \in S : TRUE
         IN  Overlay([f EXCEPT ![i] = g[i]], g, S \ {i})

\* C6: set_block(x,y,z,b) turns every in-bounds neighbour's bit true when b is transparent
\* and the recomputed bit of (x,y,z) is true, changes no neighbour's bit otherwise, and
\* never changes the bit of a cell that is neither (x,y,z) nor a neighbour.
C6_OneRingFrame ==
    [][SetBlockStep =>
         LET x == last'.x
             y == last'.y
             z == last'.z
             ring == {FlatIndex(n[1], n[2], n[3]) : n \in NeighboursIn(x, y, z)}
             own == chunk'.visible[FlatIndex(x, y, z)]
         IN  /\ (last'.block.transparent /\ own) => \A i \in ring : chunk'.visible[i]
             /\ ~(last'.block.transparent /\ own) =>
                    \A i \in ring : chunk'.visible[i] = chunk.visible[i]
             /\ chunk'.visible
                  = Overlay(chunk.visible, chunk'.visible, ring \cup {FlatIndex(x, y, z)})]_vars

\* C6's case: a transparent block went into the interior cell (2,2,2), its recomputed bit
\* is true and so is every neighbour's, while the bit of the far cell (15,15,15), cleared
\* before the call, is still false.
C6_Witness ==
    /\ last.op = "set_block" /\ last.outcome = "ok"
    /\ <<last.x, last.y, last.z>> = <<2, 2, 2>>
    /\ last.block.transparent
    /\ chunk.visible[FlatIndex(2, 2, 2)]
    /\ \A n \in NeighboursIn(2, 2, 2) : chunk.visible[FlatIndex(n[1], n[2], n[3])]
    /\ ~chunk.visible[FlatIndex(15, 15, 15)]

\* A cell is exposed when one of its six neighbours is outside the chunk or transparent.
CellExposed(c, x, y, z) ==
    \E n \in Around(x, y, z) :
        ~InChunk(n[1], n[2], n[3]) \/ c.blocks[FlatIndex(n[1], n[2], n[3])].transparent

\* C7: in a chunk as constructed, or as generate_chunk's run of set_block calls over a
\* fresh chunk leaves it, visible[i] is true exactly for the exposed cells.
C7_VisibleIsExposure ==
    (last.op \in {"new", "generate_chunk"} /\ last.outcome = "ok") =>
        \A c \in AllCells :
            chunk.visible[FlatIndex(c[1], c[2], c[3])] <=> CellExposed(chunk, c[1], c[2], c[3])

\* C8: set_block on an in-range cell stores b at x*256+y*16+z, leaves every other entry
\* as it was and raises needs_remesh; get_ref on an in-range cell returns the entry at
\* x*256+y*16+z, so a get_ref right after a set_block of the same cell returns b.
C8_StoreAndLoad ==
    [][/\ SetBlockStep =>
            /\ chunk'.blocks
                 = [chunk.blocks EXCEPT ![FlatIndex(last'.x, last'.y, last'.z)] = last'.block]
            /\ chunk'.needs_remesh
       /\ (last'.op = "get_ref" /\ InChunk(last'.x, last'.y, last'.z)) =>
            /\ last'.outcome = "ok"
            /\ last'.ret_block = chunk.blocks[FlatIndex(last'.x, last'.y, last'.z)]
            /\ (/\ last.op = "set_block" /\ last.outcome = "ok"
                /\ <<last.x, last.y, last.z>> = <<last'.x, last'.y, last'.z>>)
                   => last'.ret_block = last.block]_vars

\* C8's case: a get_ref returned the dirt block a set_block stored in the cell.
C8_Witness ==
    /\ last.op = "get_ref" /\ last.outcome = "ok"
    /\ <<last.x, last.y, last.z>> = <<2, 2, 2>>
    /\ last.ret_block = block(palette, "dirt")
    /\ chunk.needs_remesh

\* C9: the mesh get_mesh returns is the mesh the mesher computes from the chunk's blocks
\* as they are at the call, and get_mesh fails only when the mesher does.
C9_MeshIsCurrent ==
    last.op = "get_mesh" =>
        LET g == greedy(chunk, overflow_checks, atlas, palette)
        IN  IF last.outcome = "ok"
            THEN ~g.panicked /\ last.ret_mesh = [vertices |-> g.vertices, indices |-> g.indices]
            ELSE g.panicked

\* C9's case: the last of four calls was a get_mesh, and it returned the nine faces of
\* the two blocks stored.
C9_Witness ==
    /\ last.op = "get_mesh" /\ last.outcome = "ok"
    /\ calls = 0
    /\ chunk.blocks[FlatIndex(2, 2, 2)] = block(palette, "dirt")
    /\ chunk.blocks[FlatIndex(15, 15, 15)] = block(palette, "dirt")
    /\ Len(last.ret_mesh.vertices) = 36

\* C10: get_ref and set_block with a coordinate outside [0,16) fail and leave the chunk
\* as it was.
C10_OutOfRangeIsFatal ==
    [][(last'.op \in {"get_ref", "set_block"} /\ ~InChunk(last'.x, last'.y, last'.z)) =>
         (last'.outcome = "panic" /\ chunk' = chunk)]_vars

\* The last descriptor add_block was given under the name, as a set: empty when the name
\* was never registered.
LastRegistered(name) ==
    {registered[k] : k \in {j \in 1..Len(registered) :
                               /\ registered[j].id = name
                               /\ \A i \in (j + 1)..Len(registered) : registered[i].id # name}}

\* C11: the k-th add_block call on a registry that started empty (k from 0) stores its
\* descriptor under id k, and under that id only.
C11_IdsCountFromZero ==
    [][last'.op = "add_block" =>
         LET k == Len(registered)
             desc == registered'[k + 1]
         IN  /\ palette'.keys[desc.id] = k
             /\ k \notin DOMAIN palette.blocks
             /\ palette'.blocks[k] = desc
             /\ \A i \in DOMAIN palette.blocks : palette'.blocks[i] = palette.blocks[i]
             /\ DOMAIN palette'.blocks = 0..k]_vars

\* C11's case: "air", "grass", "dirt" were added in that order and have ids 0, 1, 2.
C11_Witness ==
    /\ registered = <<AirDesc, GrassDesc, DirtDesc>>
    /\ palette.keys["air"] = 0 /\ palette.keys["grass"] = 1 /\ palette.keys["dirt"] = 2

\* C12: the registry is a bijection between names and ids: every id of the id table is the
\* id of exactly one name of the name table, and the descriptor stored under an id has a
\* name that maps back to that id.
C12_NamesAndIdsBijective ==
    /\ \A i \in DOMAIN palette.blocks :
           /\ Cardinality({n \in DOMAIN palette.keys : palette.keys[n] = i}) = 1
           /\ palette.blocks[i].id \in DOMAIN palette.keys
           /\ palette.keys[palette.blocks[i].id] = i
    /\ \A n \in DOMAIN palette.keys : palette.keys[n] \in DOMAIN palette.blocks

\* C13: get_str, get_uint and block fail on a name or id no add_block call registered,
\* and on a registered one return the descriptor (block: the Block made of the descriptor)
\* last registered under the name, or the one the id was assigned to.
C13_LookupsFailOrFind ==
    /\ last.op = "get_str" =>
          IF LastRegistered(last.name) = {} THEN last.outcome = "panic"
          ELSE last.outcome = "ok" /\ last.ret_desc[1] \in LastRegistered(last.name)
    /\ last.op = "get_uint" =>
          IF last.id + 1 > Len(registered) THEN last.outcome = "panic"
          ELSE last.outcome = "ok" /\ last.ret_desc[1] = registered[last.id + 1]
    /\ last.op = "block" =>
          IF LastRegistered(last.name) = {} THEN last.outcome = "panic"
          ELSE /\ last.outcome = "ok"
               /\ \E d \in LastRegistered(last.name) :
                      /\ last.ret_block.invisible = d.invisible
                      /\ last.ret_block.transparent = d.transparent
                      /\ registered[last.ret_block.desc_index + 1] = d

\* C13's case: "grass" was registered twice and get_str returned the second descriptor.
C13_Witness ==
    /\ last.op = "get_str" /\ last.outcome = "ok"
    /\ registered = <<GrassDesc, GrassAgainDesc>>
    /\ last.ret_desc = Some(GrassAgainDesc)

\* The Block has the flags of the descriptor registered under its desc_index.
FlagsMatch(b) ==
    /\ b.desc_index \in DOMAIN palette.blocks
    /\ palette.blocks[b.desc_index].invisible = b.invisible
    /\ palette.blocks[b.desc_index].transparent = b.transparent

\* C14: once the registry holds a descriptor, every Block in a cell of the chunk and every
\* Block palette.block returned has the flags of the descriptor registered under its
\* desc_index.
C14_FlagsMatchDescriptor ==
    registered # <<>> =>
        /\ \A i \in 0..4095 : FlagsMatch(chunk.blocks[i])
        /\ (last.op = "block" /\ last.outcome = "ok") => FlagsMatch(last.ret_block)

\* C15: get_chunk_or_generate(coord) on a coord of the map returns the stored chunk,
\* runs no generation and leaves the map as it was; on a coord not in the map it
\* generates, adds that one entry and returns it; no call on the world or the registry
\* removes or changes an entry.
C15_LazyInsertOnce ==
    [][/\ last'.op = "get_chunk_or_generate" =>
            IF last'.pos \in DOMAIN chunks
            THEN /\ last'.outcome = "ok"
                 /\ ~last'.generated
                 /\ chunks' = chunks
                 /\ last'.ret_chunk = <<chunks[last'.pos]>>
            ELSE last'.outcome = "ok" =>
                    /\ last'.generated
                    /\ DOMAIN chunks' = DOMAIN chunks \cup {last'.pos}
                    /\ last'.ret_chunk = <<chunks'[last'.pos]>>
       /\ \A q \in DOMAIN chunks : q \in DOMAIN chunks' /\ chunks'[q] = chunks[q]]_vars

\* C15's case: a second get_chunk_or_generate of (0,0,0), made after "dirt" moved to id 3,
\* returned the stored chunk of id-2 blocks; the map holds a second chunk.
C15_Witness ==
    /\ last.op = "get_chunk_or_generate" /\ last.outcome = "ok" /\ ~last.generated
    /\ last.pos = <<0, 0, 0>>
    /\ palette.keys["dirt"] = 3
    /\ last.ret_chunk[1].blocks[0].desc_index = 2
    /\ DOMAIN chunks = {<<0, 0, 0>>, <<-1, 0, 0>>}

\* C16: generate_chunk(coord) on a coord of the map returns an error and changes neither
\* the map nor a chunk; get_chunk(coord) returns an error exactly when coord is not in the
\* map, and the stored chunk otherwise.
C16_ErrorResults ==
    [][/\ (last'.op = "world_generate_chunk" /\ last'.pos \in DOMAIN chunks) =>
            (last'.outcome = "err" /\ chunks' = chunks /\ chunk' = chunk)
       /\ last'.op = "get_chunk" =>
            /\ last'.outcome = "err" <=> last'.pos \notin DOMAIN chunks
            /\ last'.outcome = "ok" <=> last'.pos \in DOMAIN chunks
            /\ last'.outcome = "ok" => last'.ret_chunk = <<chunks[last'.pos]>>
            /\ chunks' = chunks]_vars

\* C16's case: generate_chunk was refused on a coord that get_chunk_or_generate had filled.
C16_Witness ==
    /\ last.op = "world_generate_chunk" /\ last.outcome = "err"
    /\ last.pos \in DOMAIN chunks

\* The texture of the vertex is packed in the atlas.
TexturePacked(v) == v.texcoord[1] \in atlas

\* C17: get_mesh against an atlas that lacks textures fails exactly when it fails against
\* the atlas holding them all, and otherwise returns the faces of that full mesh whose
\* texture is packed, in the same order: the faces with a missing texture are left out
\* and nothing else changes.
C17_MissSkipsThatFace ==
    last.op = "get_mesh" =>
        LET full == greedy(chunk, overflow_checks, FullAtlas, palette)
        IN  IF full.panicked THEN last.outcome = "panic"
            ELSE /\ last.outcome = "ok"
                 /\ last.ret_mesh.vertices = SelectSeq(full.vertices, TexturePacked)

\* C17's case: "grass_top" is not packed, and the mesh of the grass block at (2,2,2) has
\* its five other faces.
C17_Witness ==
    /\ last.op = "get_mesh" /\ last.outcome = "ok"
    /\ "grass_top" \notin atlas
    /\ chunk.blocks[FlatIndex(2, 2, 2)] = block(palette, "grass")
    /\ Len(last.ret_mesh.vertices) = 20

\* C18: a mesh get_mesh returns has 4 vertices and 6 indices per quad, the indices of the
\* k-th quad being 4k+1, 4k, 4k+2, 4k+1, 4k+2, 4k+3, all below the vertex count.
C18_QuadIndexPattern ==
    (last.op = "get_mesh" /\ last.outcome = "ok") =>
        LET nv == Len(last.ret_mesh.vertices)
            ix == last.ret_mesh.indices
        IN  /\ nv % 4 = 0
            /\ Len(ix) = 6 * (nv \div 4)
            /\ \A k \in 0..((nv \div 4) - 1) :
                   SubSeq(ix, 6 * k + 1, 6 * k + 6)
                     = <<4 * k + 1, 4 * k, 4 * k + 2, 4 * k + 1, 4 * k + 2, 4 * k + 3>>
            /\ \A j \in 1..Len(ix) : ix[j] < nv

\* C18's case: a mesh of eight quads, of two grass blocks that touch, with skipped
\* faces between them.
C18_Witness ==
    /\ last.op = "get_mesh" /\ last.outcome = "ok"
    /\ "grass_top" \notin atlas
    /\ Len(last.ret_mesh.vertices) = 32
    /\ Len(last.ret_mesh.indices) = 48

Minus(a, b) == <<a[1] - b[1], a[2] - b[2], a[3] - b[3]>>

Cross(a, b) ==
    <<a[2] * b[3] - a[3] * b[2], a[3] * b[1] - a[1] * b[3], a[1] * b[2] - a[2] * b[1]>>

Sign(n) == IF n > 0 THEN 1 ELSE IF n < 0 THEN -1 ELSE 0

SignVec(a) == <<Sign(a[1]), Sign(a[2]), Sign(a[3])>>

\* C19: every triangle of a returned mesh, its three positions taken in index order, has
\* a cross-product normal along the axis and with the sign of the normal stored on its
\* three vertices.
C19_WindingMatchesNormal ==
    (last.op = "get_mesh" /\ last.outcome = "ok") =>
        \A t \in 0..((Len(last.ret_mesh.indices) \div 3) - 1) :
            LET a == last.ret_mesh.vertices[last.ret_mesh.indices[3 * t + 1] + 1]
                b == last.ret_mesh.vertices[last.ret_mesh.indices[3 * t + 2] + 1]
                c == last.ret_mesh.vertices[last.ret_mesh.indices[3 * t + 3] + 1]
                n == SignVec(Cross(Minus(b.position, a.position), Minus(c.position, a.position)))
            IN  n = a.normals /\ n = b.normals /\ n = c.normals

\* C19's case: a mesh with a quad in each of the six directions.
C19_Witness ==
    /\ last.op = "get_mesh" /\ last.outcome = "ok"
    /\ {last.ret_mesh.vertices[k].normals : k \in 1..Len(last.ret_mesh.vertices)}
         = {<<1, 0, 0>>, <<-1, 0, 0>>, <<0, 1, 0>>, <<0, -1, 0>>, <<0, 0, 1>>, <<0, 0, -1>>}

\* The cells that have the point p as a corner.
CellsAt(p) ==
    {c \in {<<p[1] - i, p[2] - j, p[3] - k>> : i, j, k \in {0, 1}} : InChunk(c[1], c[2], c[3])}

\* C20: no quad of a returned mesh is a face of a cell whose block is invisible, and
\* get_mesh on a chunk of invisible blocks only returns no vertex and no index.
C20_InvisibleCellsHaveNoFaces ==
    last.op = "get_mesh" =>
        /\ (\A i \in 0..4095 : chunk.blocks[i].invisible) =>
              (last.outcome = "ok" /\ last.ret_mesh = [vertices |-> <<>>, indices |-> <<>>])
        /\ last.outcome = "ok" =>
              \A q \in 0..((Len(last.ret_mesh.vertices) \div 4) - 1) :
                  \A c \in CellsAt(last.ret_mesh.vertices[4 * q + 1].position) :
                      \A dir \in Dirs, tex \in atlas :
                          SubSeq(last.ret_mesh.vertices, 4 * q + 1, 4 * q + 4)
                              = FaceVertices(c[1], c[2], c[3], dir, coords_of(atlas, tex))
                            => ~chunk.blocks[FlatIndex(c[1], c[2], c[3])].invisible

\* C20's case: the chunk was written to and holds invisible blocks only, and get_mesh ran
\* the mesher and returned the empty mesh.
C20_Witness ==
    /\ last.op = "get_mesh" /\ last.outcome = "ok"
    /\ chunk.needs_remesh
    /\ \A i \in 0..4095 : chunk.blocks[i].invisible
    /\ last.ret_mesh = [vertices |-> <<>>, indices |-> <<>>]

\* The chunk a fresh process builds from a script: set_block applied call by call to a
\* chunk as constructed.
RECURSIVE Replay(_, _)
Replay(c, calls_made) ==
    IF calls_made = <<>> THEN c
    ELSE Replay(set_block(c, Head(calls_made).x, Head(calls_made).y, Head(calls_made).z,
                          Head(calls_made).block).chunk,
                Tail(calls_made))

InsideBall(x, y, z) == (x - 8) * (x - 8) + (y - 8) * (y - 8) + (z - 8) * (z - 8) < 18 * 18

\* C26: the generator returns the registry's "air" exactly for a cell outside the sphere,
\* "grass" for a cell inside whose upper neighbour is outside, and "dirt" for a cell
\* inside whose upper neighbour is inside.
C26_BallGenerator ==
    last.op = "at" =>
        /\ last.outcome = "ok"
        /\ last.name = (IF ~InsideBall(last.x, last.y, last.z) THEN "air"
                        ELSE IF ~InsideBall(last.x, last.y + 1, last.z) THEN "grass"
                        ELSE "dirt")
        /\ last.ret_block.desc_index = palette.keys[last.name]
        /\ last.ret_block.invisible = palette.blocks[palette.keys[last.name]].invisible
        /\ last.ret_block.transparent = palette.blocks[palette.keys[last.name]].transparent

\* C26's case: (8,25,8) is inside the sphere and (8,26,8) is not: grass.
C26_Witness ==
    /\ last.op = "at" /\ <<last.x, last.y, last.z>> = <<8, 25, 8>>
    /\ last.name = "grass"
    /\ last.ret_block = [desc_index |-> 1, invisible |-> FALSE, transparent |-> FALSE]

\* C27: when get_mesh has returned, needs_remesh is false.
C27_CleanAfterGetMesh ==
    (last.op = "get_mesh" /\ last.outcome = "ok") => ~chunk.needs_remesh

\* Every cell holds a registered block whose descriptor has its six texture names.
AllCellsTextured ==
    \A i \in 0..4095 :
        /\ chunk.blocks[i].desc_index \in DOMAIN palette.blocks
        /\ \A dir \in Dirs : DirTexture(palette.blocks[chunk.blocks[i].desc_index], dir) # <<>>

\* C28: get_mesh on a chunk whose cells all hold registered blocks with six texture names
\* does not fail.
C28_MesherCompletes ==
    (last.op = "get_mesh" /\ AllCellsTextured) => last.outcome = "ok"

\* C29: every visible bit is true in every state the calls on a fresh chunk reach.
C29_AllBitsStayTrue ==
    chunk.visible = [i \in 0..4095 |-> TRUE]

\* C29's case: a transparent block went into (2,2,2) after another call on the chunk.
C29_Witness ==
    /\ last.op = "set_block" /\ last.outcome = "ok"
    /\ <<last.x, last.y, last.z>> = <<2, 2, 2>>
    /\ last.block.transparent /\ ~last.block.invisible
    /\ calls = 0

\* C30: the chunk generate_chunk returns holds the registry's "dirt" in all 4096 cells.
C30_GeneratedChunkIsDirt ==
    last.op = "generate_chunk" =>
        /\ last.outcome = "ok"
        /\ chunk.blocks
             = [i \in 0..4095 |-> [desc_index |-> palette.keys["dirt"],
                                   invisible |-> FALSE, transparent |-> FALSE]]

\* C30's case: generate_chunk has returned its chunk.
C30_Witness ==
    /\ last.op = "generate_chunk" /\ last.outcome = "ok"
    /\ chunk.needs_remesh
    /\ chunk.blocks[FlatIndex(15, 15, 15)].desc_index = 2


\* The closure for the chunk at p appends its indices in this step.
MergeStep(p) == pc[p] = "append_i" /\ pc'[p] = "count"

\* The indices of the chunk at p, each raised by n.
Raised(p, n) == [k \in 1..Len(local[p].indices) |-> local[p].indices[k] + n]

\* Another chunk's closure has already appended its indices.
MergedBefore(p) == \E q \in Positions \ {p} : pc[q] \in {"count", "done"}

VerticesFrom(p) ==
    LET ks == {k \in 1..Len(vertices_mutex.owner) : vertices_mutex.owner[k] = p}
    IN  [k \in 1..Cardinality(ks) |->
            mm.vertices[(CHOOSE s \in ks : \A t \in ks : s <= t) + k - 1]]

\* Every coordinate of v is the matching coordinate of w plus 16 times that of p.
MovedBy(v, w, p) == \A a \in 1..3 : v.position[a] = w.position[a] + 16 * p[a]

\* An f32 holds the integer exactly.
Exact(n) == n <= 16777216 /\ 0 - n <= 16777216

C22_MakeMeshReturns ==
    (Positions # {} /\ \A p \in Positions : chunks[p] = GeneratedChunk) =>
        <>(/\ mm.status = "returned"
           /\ chunks_completed = Cardinality(Positions)
           /\ \A p \in Positions : pc[p] = "done")

\* The closure whose worker thread runs the closure for q, given the closures' locals.
WorkerOf(loc, q) == IF loc[q].on = None THEN q ELSE loc[q].on[1]

\* The worker of the closure for w holds the guard of the mutex.
HeldBy(mutex, loc, w) == mutex.holder # None /\ WorkerOf(loc, mutex.holder[1]) = w

====
